---- MODULE Spec2Model ----
(***************************************************************************)
(* Model of src/Main.cpp: the start-up sequence of main (context, geometry *)
(* upload, shader program, texture, uniforms, camera), the main loop and   *)
(* the cleanup.                                                            *)
(*                                                                         *)
(* Arithmetic is exact.  Times are whole clock ticks; a camera Position    *)
(* component is stored multiplied by PosDen, so that MovementSpeed (2.5)   *)
(* is the fraction MovementSpeedNum / PosDen and every product is an       *)
(* integer.  Angles are whole degrees; the only angles the program uses    *)
(* are multiples of 90.  The rounding of binary32 arithmetic is not part   *)
(* of the model.                                                           *)
(***************************************************************************)
EXTENDS Integers, Sequences, FiniteSets, TLC

\* ------------------------------------------------------------------ bounds
\* Clock ticks glfwGetTime may advance in the whole run.
MaxTime == 1
\* Key presses and releases delivered by glfwPollEvents in the whole run.
MaxEvents == 2
\* Main-loop iterations started in one run.
MaxFrames == 3

\* ------------------------------------------------------- program constants
EXIT_FAILURE == 1
MovementSpeedNum == 5
PosDen == 2
FloatsPerVertex == 8

GLFW_KEY_ESCAPE == "ESCAPE"
GLFW_KEY_W == "W"
GLFW_KEY_S == "S"
GLFW_KEY_A == "A"
GLFW_KEY_D == "D"
GLFW_KEY_Q == "Q"
GLFW_KEY_E == "E"
GLFW_KEY_L == "L"

\* The keys main reads with glfwGetKey.
Keys ==
  {GLFW_KEY_ESCAPE, GLFW_KEY_W, GLFW_KEY_S, GLFW_KEY_A, GLFW_KEY_D,
   GLFW_KEY_Q, GLFW_KEY_E, GLFW_KEY_L}

\* GLfloat vertices[]: 8 floats a vertex (position, colour, texture coords).
\* main never assigns to the array or to indices[] after defining them, so
\* both are constants of the model.
vertices ==
  << -5, 0, -5,  0, 1, 0,  0, 0,
      5, 0, -5,  0, 1, 0,  0, 0,
      5, 0,  5,  0, 1, 0,  0, 0,
     -5, 0,  5,  0, 1, 0,  0, 0,
     -1, 0, -1,  1, 1, 1,  0, 1,
     -1, 2, -1,  1, 1, 1,  0, 0,
      1, 2, -1,  1, 1, 1,  1, 0,
      1, 0, -1,  1, 1, 1,  1, 1,
     -1, 0,  1,  1, 1, 1,  0, 1,
     -1, 2,  1,  1, 1, 1,  0, 0,
      1, 2,  1,  1, 1, 1,  1, 0,
      1, 0,  1,  1, 1, 1,  1, 1,
      2, 0,  2,  1, 1, 1,  0, 1,
      2, 3,  2,  1, 1, 1,  0, 0,
      4, 3,  2,  1, 1, 1,  1, 0,
      4, 0,  2,  1, 1, 1,  1, 1,
      2, 0,  4,  1, 1, 1,  0, 1,
      2, 3,  4,  1, 1, 1,  0, 0,
      4, 3,  4,  1, 1, 1,  1, 0,
      4, 0,  4,  1, 1, 1,  1, 1 >>

\* GLuint indices[].
indices ==
  << 0, 1, 2, 2, 3, 0,
     4, 5, 6, 6, 7, 4,
     4, 5, 9, 9, 8, 4,
     5, 6, 10, 10, 9, 5,
     6, 7, 11, 11, 10, 6,
     7, 4, 8, 8, 11, 7,
     8, 9, 10, 10, 11, 8,
     12, 13, 14, 14, 15, 12,
     12, 13, 17, 17, 16, 12,
     13, 14, 18, 18, 17, 13,
     14, 15, 19, 19, 18, 14,
     15, 12, 16, 16, 19, 15,
     16, 17, 18, 18, 19, 16 >>

\* ------------------------------------------------------------------- state
VARIABLES
  pc,            \* position of main
  exitCode,      \* << >> while running, else << the process's exit status >>
  stderr,        \* the messages written to std::cerr, in order
  glfw,          \* [initialized, window, shouldClose, terminated]
  keys,          \* the keys GLFW reports pressed (its cached key state)
  clock,         \* the value glfwGetTime returns, in ticks
  eventsUsed,    \* key presses and releases delivered so far
  gl,            \* GL objects: buffers, program, texture, uniforms, deletions;
                 \* a buffer's data store is named by the array uploaded to it
  lightOn,       \* bool lightOn of main
  camera,        \* the Camera object of main
  deltaTime,     \* float deltaTime of main
  lastFrame,     \* float lastFrame of main
  stages,        \* start-up stages completed, in order
  steps,         \* what the current loop iteration has done, in order
  frame,         \* loop iterations started
  hist           \* observations of the run the properties are stated over

vars ==
  << pc, exitCode, stderr, glfw, keys, clock, eventsUsed, gl, lightOn, camera, deltaTime, lastFrame, stages, steps, frame, hist >>

\* ----------------------------------------------------------------- vectors
Vec3(x, y, z) == << x, y, z >>

\* The vector operators bind their arguments once (x \in {a}) before the
\* component-wise computation.
VAdd(a, b) ==
  CHOOSE r \in {[i \in 1..3 |-> x[i] + y[i]] : x \in {a}, y \in {b}} : TRUE

VSub(a, b) ==
  CHOOSE r \in {[i \in 1..3 |-> x[i] - y[i]] : x \in {a}, y \in {b}} : TRUE

VScale(a, k) ==
  CHOOSE r \in {[i \in 1..3 |-> x[i] * n] : x \in {a}, n \in {k}} : TRUE

Dot(a, b) == a[1] * b[1] + a[2] * b[2] + a[3] * b[3]

\* glm::cross
Cross(a, b) ==
  CHOOSE r \in {Vec3(x[2] * y[3] - x[3] * y[2],
                     x[3] * y[1] - x[1] * y[3],
                     x[1] * y[2] - x[2] * y[1]) : x \in {a}, y \in {b}} : TRUE

ISqrt(n) == CHOOSE r \in 0..n : r * r <= n /\ (r + 1) * (r + 1) > n

\* glm::normalize: v / sqrt(dot(v, v)), exact for the axis-parallel vectors
\* the program normalizes.
Normalize(v) ==
  CHOOSE r \in {[i \in 1..3 |-> x[i] \div len] :
                  x \in {v}, len \in {ISqrt(Dot(v, v))}} : TRUE

\* cos(glm::radians(d)) and sin(glm::radians(d)) for d a multiple of 90.
CosDeg(d) ==
  CASE d % 360 = 0 -> 1
    [] d % 360 = 90 -> 0
    [] d % 360 = 180 -> -1
    [] d % 360 = 270 -> 0

SinDeg(d) ==
  CASE d % 360 = 0 -> 0
    [] d % 360 = 90 -> 1
    [] d % 360 = 180 -> 0
    [] d % 360 = 270 -> -1

\* ------------------------------------------------------------------ camera
\* Camera::updateCameraVectors with Right taken as cross(WorldUp, Front).
updateCameraVectors_SwappedCross(cam) ==
  LET front == Vec3(CosDeg(cam.Yaw) * CosDeg(cam.Pitch),
                    SinDeg(cam.Pitch),
                    SinDeg(cam.Yaw) * CosDeg(cam.Pitch))
      Front == Normalize(front)
      Right == Normalize(Cross(cam.WorldUp, Front))
      Up == Normalize(Cross(Right, Front))
  IN  [cam EXCEPT !.Front = Front, !.Right = Right, !.Up = Up]

updateCameraVectors(cam) ==
  LET front == Vec3(CosDeg(cam.Yaw) * CosDeg(cam.Pitch),
                    SinDeg(cam.Pitch),
                    SinDeg(cam.Yaw) * CosDeg(cam.Pitch))
      Front == Normalize(front)
      Right == Normalize(Cross(Front, cam.WorldUp))
      Up == Normalize(Cross(Right, Front))
  IN  [cam EXCEPT !.Front = Front, !.Right = Right, !.Up = Up]

\* Camera::Camera(position, up, yaw, pitch); position is given times PosDen.
NewCamera(position, up, yaw, pitch) ==
  updateCameraVectors(
    [Position |-> position, Front |-> Vec3(0, 0, -1), Up |-> Vec3(0, 0, 0),
     Right |-> Vec3(0, 0, 0), WorldUp |-> up, Yaw |-> yaw, Pitch |-> pitch,
     MovementSpeedNum |-> MovementSpeedNum])

\* Camera::GetViewMatrix: the arguments handed to glm::lookAt.
GetViewMatrix(cam) ==
  [eye |-> cam.Position,
   center |-> VAdd(cam.Position, VScale(cam.Front, PosDen)),
   up |-> cam.Up]

\* Camera::ProcessKeyboard with the sign of the A branch wrong.
ProcessKeyboard_ASign(cam, direction, dt) ==
  LET velocity == cam.MovementSpeedNum * dt
      p0 == cam.Position
      p1 == IF direction = GLFW_KEY_W THEN VAdd(p0, VScale(cam.Front, velocity)) ELSE p0
      p2 == IF direction = GLFW_KEY_S THEN VSub(p1, VScale(cam.Front, velocity)) ELSE p1
      p3 == IF direction = GLFW_KEY_A THEN VAdd(p2, VScale(cam.Right, velocity)) ELSE p2
      p4 == IF direction = GLFW_KEY_D THEN VAdd(p3, VScale(cam.Right, velocity)) ELSE p3
      p5 == IF direction = GLFW_KEY_Q THEN VAdd(p4, VScale(cam.Up, velocity)) ELSE p4
      p6 == IF direction = GLFW_KEY_E THEN VSub(p5, VScale(cam.Up, velocity)) ELSE p5
  IN  [cam EXCEPT !.Position = p6]

\* Camera::ProcessKeyboard(direction, deltaTime).
ProcessKeyboard(cam, direction, dt) ==
  LET velocity == cam.MovementSpeedNum * dt
      p0 == cam.Position
      p1 == IF direction = GLFW_KEY_W THEN VAdd(p0, VScale(cam.Front, velocity)) ELSE p0
      p2 == IF direction = GLFW_KEY_S THEN VSub(p1, VScale(cam.Front, velocity)) ELSE p1
      p3 == IF direction = GLFW_KEY_A THEN VSub(p2, VScale(cam.Right, velocity)) ELSE p2
      p4 == IF direction = GLFW_KEY_D THEN VAdd(p3, VScale(cam.Right, velocity)) ELSE p3
      p5 == IF direction = GLFW_KEY_Q THEN VAdd(p4, VScale(cam.Up, velocity)) ELSE p4
      p6 == IF direction = GLFW_KEY_E THEN VSub(p5, VScale(cam.Up, velocity)) ELSE p5
  IN  [cam EXCEPT !.Position = p6]

\* ------------------------------------------------------------- GL buffers
\* A buffer object without a data store.
NoData == [array |-> "", size |-> 0]

\* glBufferData(target, sizeof(a), a, GL_STATIC_DRAW): the data store is a
\* copy of the host array a, size elements long.
Upload(a) ==
  [array |-> a,
   size |-> IF a = "vertices" THEN Len(vertices) ELSE Len(indices)]

\* The elements a buffer's data store holds.
Contents(b) ==
  CASE b.array = "vertices" -> vertices
    [] b.array = "indices" -> indices
    [] OTHER -> << >>

\* ----------------------------------------------------------- initial state
\* The state when main is entered.  GLFW reports every key released until
\* glfwPollEvents has processed a key event.  lightOn, camera, deltaTime and
\* lastFrame do not exist before main defines them; they hold placeholders.
Init ==
  /\ pc = "start"
  /\ exitCode = << >>
  /\ stderr = << >>
  /\ glfw = [initialized |-> FALSE, window |-> FALSE, shouldClose |-> FALSE,
             terminated |-> FALSE]
  /\ keys = {}
  /\ clock = 0
  /\ eventsUsed = 0
  /\ gl = [objects |-> {}, vbo |-> NoData, ebo |-> NoData,
           bufferData |-> [VBO |-> 0, EBO |-> 0], stride |-> 0,
           program |-> << >>, texture |-> "none",
           projection |-> FALSE, lightOn |-> << >>, view |-> << >>,
           model |-> << >>, deleted |-> {}]
  /\ lightOn = FALSE
  /\ camera = << >>
  /\ deltaTime = 0
  /\ lastFrame = 0
  /\ stages = << >>
  /\ steps = << >>
  /\ frame = 0
  /\ hist = [escFrame |-> 0, posBefore |-> << >>, lPressed |-> FALSE,
             lightAtPress |-> FALSE, draws |-> << >>, presented |-> 0]

\* ---------------------------------------------------------------- start-up
\* A context failure that is logged and then ignored: no exit.
Fail_Continue(msg, terminate) ==
  /\ stderr' = Append(stderr, msg)
  /\ glfw' = [glfw EXCEPT !.terminated = terminate]
  /\ stages' = Append(stages, "context")
  /\ pc' = "upload"
  /\ UNCHANGED exitCode

\* exit(EXIT_FAILURE) after a message on std::cerr.
Fail(msg, terminate) ==
  /\ stderr' = Append(stderr, msg)
  /\ glfw' = [glfw EXCEPT !.terminated = terminate]
  /\ exitCode' = << EXIT_FAILURE >>
  /\ pc' = "exited"
  /\ UNCHANGED stages

\* initGLFWandGLAD, called first by main.  outcome is what the platform
\* answers: glfwInit fails, glfwCreateWindow returns null, gladLoadGLLoader
\* fails, or all three succeed.
InitGLFWandGLAD ==
  /\ pc = "start"
  /\ \E outcome \in {"ok", "glfwInit", "window", "glad"} :
       CASE outcome = "glfwInit" -> Fail("Failed to initialize GLFW", FALSE)
         [] outcome = "window" -> Fail("Failed to create GLFW window", TRUE)
         [] outcome = "glad" -> Fail("Failed to initialize GLAD", FALSE)
         [] outcome = "ok" ->
              /\ glfw' = [glfw EXCEPT !.initialized = TRUE, !.window = TRUE]
              /\ stages' = Append(stages, "context")
              /\ pc' = "upload"
              /\ UNCHANGED << stderr, exitCode >>
  /\ UNCHANGED << keys, clock, eventsUsed, gl, lightOn,
                  camera, deltaTime, lastFrame, steps, frame, hist >>

\* main: glGenVertexArrays .. glEnableVertexAttribArray(2).
UploadGeometry ==
  /\ pc = "upload"
  /\ gl' = [gl EXCEPT !.objects = {"VAO", "VBO", "EBO"},
                      !.vbo = Upload("vertices"),
                      !.ebo = Upload("indices"),
                      !.bufferData = [VBO |-> @.VBO + 1, EBO |-> @.EBO + 1],
                      !.stride = FloatsPerVertex]
  /\ stages' = Append(stages, "geometry")
  /\ pc' = "shader"
  /\ UNCHANGED << exitCode, stderr, glfw, keys, clock, eventsUsed, lightOn, camera, deltaTime, lastFrame, steps,
                  frame, hist >>

\* The messages createShaderProgram writes for the three status checks.
ShaderLog(vsOk, fsOk, linkOk) ==
  (IF vsOk THEN << >> ELSE << "ERROR::SHADER::VERTEX::COMPILATION_FAILED" >>)
  \o (IF fsOk THEN << >> ELSE << "ERROR::SHADER::FRAGMENT::COMPILATION_FAILED" >>)
  \o (IF linkOk THEN << >> ELSE << "ERROR::SHADER::PROGRAM::LINKING_FAILED" >>)

\* createShaderProgram treating a failed status check as fatal.
CreateShaderProgram_Exit ==
  /\ pc = "shader"
  /\ \E vsFailed \in BOOLEAN, fsFailed \in BOOLEAN, linkFailed \in BOOLEAN :
     LET vsOk == ~vsFailed
         fsOk == ~fsFailed
         linkOk == ~linkFailed
     IN
       /\ stderr' = stderr \o ShaderLog(vsOk, fsOk, linkOk)
       /\ IF vsOk /\ fsOk /\ linkOk
            THEN /\ gl' = [gl EXCEPT !.program = << [vs |-> vsOk, fs |-> fsOk, linked |-> linkOk] >>]
                 /\ stages' = Append(stages, "shader")
                 /\ pc' = "texture"
                 /\ UNCHANGED exitCode
            ELSE /\ exitCode' = << EXIT_FAILURE >>
                 /\ pc' = "exited"
                 /\ UNCHANGED << gl, stages >>
  /\ UNCHANGED << glfw, keys, clock, eventsUsed, lightOn, camera, deltaTime, lastFrame, steps, frame, hist >>

\* main: createShaderProgram() and glUseProgram.  Whatever the three status
\* checks answer, the function returns the handle glCreateProgram gave.
CreateShaderProgram ==
  /\ pc = "shader"
  /\ \E vsFailed \in BOOLEAN, fsFailed \in BOOLEAN, linkFailed \in BOOLEAN :
     LET vsOk == ~vsFailed
         fsOk == ~fsFailed
         linkOk == ~linkFailed
     IN
       /\ stderr' = stderr \o ShaderLog(vsOk, fsOk, linkOk)
       /\ gl' = [gl EXCEPT !.program = << [vs |-> vsOk, fs |-> fsOk, linked |-> linkOk] >>]
  /\ stages' = Append(stages, "shader")
  /\ pc' = "texture"
  /\ UNCHANGED << exitCode, glfw, keys, clock, eventsUsed, lightOn, camera, deltaTime, lastFrame, steps, frame, hist >>

\* main: glGenTextures .. stbi_image_free.  data is whether stbi_load
\* returned an image.
LoadTexture ==
  /\ pc = "texture"
  /\ \E loadFailed \in BOOLEAN :
     LET data == ~loadFailed IN
       IF data
         THEN /\ gl' = [gl EXCEPT !.texture = "image"]
              /\ UNCHANGED stderr
         ELSE /\ gl' = [gl EXCEPT !.texture = "empty"]
              /\ stderr' = Append(stderr, "Failed to load texture")
  /\ stages' = Append(stages, "texture")
  /\ pc' = "setup"
  /\ UNCHANGED << exitCode, glfw, keys, clock, eventsUsed, lightOn, camera, deltaTime, lastFrame, steps, frame, hist >>

\* main: the projection uniform, lightOn and its uniform, the camera,
\* deltaTime and lastFrame.
SetupScene ==
  /\ pc = "setup"
  /\ lightOn' = TRUE
  /\ gl' = [gl EXCEPT !.projection = TRUE, !.lightOn = << TRUE >>]
  /\ camera' = NewCamera(Vec3(0, 0, 5 * PosDen), Vec3(0, 1, 0), -90, 0)
  /\ deltaTime' = 0
  /\ lastFrame' = 0
  /\ stages' = Append(stages, "scene")
  /\ pc' = "loop"
  /\ UNCHANGED << exitCode, stderr, glfw, keys, clock, eventsUsed, steps, frame, hist >>

\* --------------------------------------------------------------- main loop
\* while (!glfwWindowShouldClose(window)): leave the loop for the cleanup,
\* or start the next iteration.
LoopTest ==
  /\ pc = "loop"
  /\ IF glfw.shouldClose
       THEN /\ pc' = "cleanup"
            /\ UNCHANGED << frame, steps >>
       ELSE /\ frame < MaxFrames
            /\ frame' = frame + 1
            /\ steps' = << >>
            /\ pc' = "input"
  /\ UNCHANGED << exitCode, stderr, glfw, keys, clock, eventsUsed, gl, lightOn, camera, deltaTime, lastFrame, stages,
                  hist >>

\* The delta-time computation and the Escape test, with the Escape test
\* leaving the should-close flag alone.
ProcessInput_NoClose ==
  /\ pc = "input"
  /\ \E currentFrame \in clock..MaxTime :
       /\ clock' = currentFrame
       /\ deltaTime' = currentFrame - lastFrame
       /\ lastFrame' = currentFrame
  /\ hist' = [hist EXCEPT !.escFrame =
                IF GLFW_KEY_ESCAPE \in keys /\ @ = 0 THEN frame ELSE @]
  /\ steps' = steps \o << "time", "escape" >>
  /\ pc' = "camera"
  /\ UNCHANGED << exitCode, stderr, glfw, keys, eventsUsed, gl, lightOn, camera, stages, frame >>

\* main: float currentFrame = glfwGetTime() .. glfwSetWindowShouldClose.
\* hist.escFrame keeps the first iteration that observed Escape pressed.
ProcessInput ==
  /\ pc = "input"
  /\ \E currentFrame \in clock..MaxTime :
       /\ clock' = currentFrame
       /\ deltaTime' = currentFrame - lastFrame
       /\ lastFrame' = currentFrame
  /\ glfw' = [glfw EXCEPT !.shouldClose =
                IF GLFW_KEY_ESCAPE \in keys THEN TRUE ELSE @]
  /\ hist' = [hist EXCEPT !.escFrame =
                IF GLFW_KEY_ESCAPE \in keys /\ @ = 0 THEN frame ELSE @]
  /\ steps' = steps \o << "time", "escape" >>
  /\ pc' = "camera"
  /\ UNCHANGED << exitCode, stderr, keys, eventsUsed, gl,
                  lightOn, camera, stages, frame >>

\* One "if (glfwGetKey(window, key) == GLFW_PRESS) camera.ProcessKeyboard".
KeyStep(cam, key) ==
  IF key \in keys THEN ProcessKeyboard(cam, key, deltaTime) ELSE cam

\* main: the six camera-control tests, in the order W, S, A, D, Q, E.
\* hist.posBefore keeps the Position the iteration started with.
CameraControls ==
  /\ pc = "camera"
  /\ \E c1 \in {KeyStep(camera, GLFW_KEY_W)} :
     \E c2 \in {KeyStep(c1, GLFW_KEY_S)} :
     \E c3 \in {KeyStep(c2, GLFW_KEY_A)} :
     \E c4 \in {KeyStep(c3, GLFW_KEY_D)} :
     \E c5 \in {KeyStep(c4, GLFW_KEY_Q)} :
     \E c6 \in {KeyStep(c5, GLFW_KEY_E)} :
       camera' = c6
  /\ hist' = [hist EXCEPT !.posBefore = camera.Position]
  /\ steps' = Append(steps, "camera")
  /\ pc' = "light"
  /\ UNCHANGED << exitCode, stderr, glfw, keys, clock, eventsUsed, gl, lightOn, deltaTime, lastFrame, stages, frame >>

\* What the L test records: hist.lPressed is whether the latest iteration
\* observed L pressed, hist.lightAtPress the value lightOn had before the
\* first iteration of that press.
ObserveL(h) ==
  IF GLFW_KEY_L \in keys
    THEN [h EXCEPT !.lPressed = TRUE,
                   !.lightAtPress = IF h.lPressed THEN @ ELSE lightOn]
    ELSE [h EXCEPT !.lPressed = FALSE]

\* The L test with the glUniform1i call left out.
ToggleLight_NoUniform ==
  /\ pc = "light"
  /\ lightOn' = IF GLFW_KEY_L \in keys THEN ~lightOn ELSE lightOn
  /\ hist' = ObserveL(hist)
  /\ steps' = Append(steps, "light")
  /\ pc' = "render"
  /\ UNCHANGED << exitCode, stderr, glfw, keys, clock, eventsUsed, gl, camera, deltaTime, lastFrame, stages, frame >>

\* main: if (glfwGetKey(window, GLFW_KEY_L) == GLFW_PRESS) { lightOn = !lightOn;
\* glUniform1i(lightOnLoc, lightOn); }
ToggleLight ==
  /\ pc = "light"
  /\ IF GLFW_KEY_L \in keys
       THEN /\ lightOn' = ~lightOn
            /\ gl' = [gl EXCEPT !.lightOn = << ~lightOn >>]
       ELSE UNCHANGED << lightOn, gl >>
  /\ hist' = ObserveL(hist)
  /\ steps' = Append(steps, "light")
  /\ pc' = "render"
  /\ UNCHANGED << exitCode, stderr, glfw, keys, clock, eventsUsed, camera, deltaTime, lastFrame, stages, frame >>

\* The element count with sizeof(indices) not divided by the element size.
DrawCount_Bytes == 4 * Len(indices)

\* sizeof(indices) / sizeof(indices[0]), the count handed to glDrawElements.
DrawCount == Len(indices)

\* glDrawElements(GL_TRIANGLES, count, GL_UNSIGNED_INT, 0) on the bound VAO:
\* what the call reads.  It reads count elements from the start of the EBO
\* (overrun when the EBO holds fewer) and, for each, one vertex of
\* gl.stride floats from the VBO.
DrawElements(g, count) ==
  [count |-> count,
   overrun |-> count > g.ebo.size,
   fetched |-> {Contents(g.ebo)[i] :
                  i \in 1..(IF count > g.ebo.size THEN g.ebo.size ELSE count)},
   vertexCount |-> g.vbo.size \div g.stride,
   lightOn |-> g.lightOn,
   frame |-> frame]

\* The render step with the glDrawElements call left out.
Render_NoDraw ==
  /\ pc = "render"
  /\ \E t \in clock..MaxTime :
       /\ clock' = t
       /\ gl' = [gl EXCEPT !.view = << GetViewMatrix(camera) >>,
                           !.model = << 50 * t >>]
  /\ steps' = steps \o << "clear", "view", "model" >>
  /\ pc' = "swap"
  /\ UNCHANGED << exitCode, stderr, glfw, keys, eventsUsed, lightOn, camera, deltaTime, lastFrame, stages, frame, hist >>

\* The render step with the buffers uploaded again before the draw.
Render_Reupload ==
  /\ pc = "render"
  /\ \E t \in clock..MaxTime :
       /\ clock' = t
       /\ gl' = [gl EXCEPT !.view = << GetViewMatrix(camera) >>,
                           !.model = << 50 * t >>,
                           !.vbo = Upload("vertices"),
                           !.ebo = Upload("indices"),
                           !.bufferData = [VBO |-> @.VBO + 1, EBO |-> @.EBO + 1]]
  /\ hist' = [hist EXCEPT !.draws = << DrawElements(gl, DrawCount) >>]
  /\ steps' = steps \o << "clear", "view", "model", "draw" >>
  /\ pc' = "swap"
  /\ UNCHANGED << exitCode, stderr, glfw, keys, eventsUsed, lightOn, camera, deltaTime, lastFrame, stages, frame >>

\* main: glClear .. glDrawElements.  The view uniform is set from the
\* camera, the model uniform is a rotation by glfwGetTime() * 50 degrees
\* about the y axis, then the one draw call is issued.  hist.draws keeps
\* what the latest draw call read.
Render ==
  /\ pc = "render"
  /\ \E t \in clock..MaxTime :
       /\ clock' = t
       /\ gl' = [gl EXCEPT !.view = << GetViewMatrix(camera) >>,
                           !.model = << 50 * t >>]
  /\ hist' = [hist EXCEPT !.draws = << DrawElements(gl, DrawCount) >>]
  /\ steps' = steps \o << "clear", "view", "model", "draw" >>
  /\ pc' = "swap"
  /\ UNCHANGED << exitCode, stderr, glfw, keys, eventsUsed, lightOn, camera, deltaTime, lastFrame, stages, frame >>

\* The keys whose state differs between two key states.
Changed(a, b) == (a \ b) \cup (b \ a)

\* main: glfwSwapBuffers and glfwPollEvents.  glfwPollEvents delivers the
\* pending events: any keys may have been pressed or released, and the
\* window's close button sets the should-close flag.
SwapAndPoll ==
  /\ pc = "swap"
  /\ \E newKeys \in SUBSET Keys, closeRequested \in BOOLEAN :
       /\ eventsUsed + Cardinality(Changed(keys, newKeys)) <= MaxEvents
       /\ eventsUsed' = eventsUsed + Cardinality(Changed(keys, newKeys))
       /\ keys' = newKeys
       /\ glfw' = [glfw EXCEPT !.shouldClose = @ \/ closeRequested]
  /\ hist' = [hist EXCEPT !.presented = @ + 1]
  /\ steps' = steps \o << "present", "poll" >>
  /\ pc' = "loop"
  /\ UNCHANGED << exitCode, stderr, clock, gl, lightOn,
                  camera, deltaTime, lastFrame, stages, frame >>

\* main: glDeleteVertexArrays .. return 0.
Cleanup ==
  /\ pc = "cleanup"
  /\ gl' = [gl EXCEPT !.deleted = {"VAO", "VBO", "EBO", "program"}]
  /\ glfw' = [glfw EXCEPT !.terminated = TRUE]
  /\ exitCode' = << 0 >>
  /\ pc' = "done"
  /\ UNCHANGED << stderr, keys, clock, eventsUsed, lightOn,
                  camera, deltaTime, lastFrame, stages, steps, frame, hist >>

\* ----------------------------------------------------------- specification
Next ==
  \/ InitGLFWandGLAD
  \/ UploadGeometry
  \/ CreateShaderProgram
  \/ LoadTexture
  \/ SetupScene
  \/ LoopTest
  \/ ProcessInput
  \/ CameraControls
  \/ ToggleLight
  \/ Render
  \/ SwapAndPoll
  \/ Cleanup

Spec == Init /\ [][Next]_vars

\* -------------------------------------------------------------- properties
\* The start-up stages, in the order main runs them.
StartupStages == << "context", "geometry", "shader", "texture", "scene" >>

\* The steps of one loop iteration, in the order main runs them.
FrameSteps ==
  << "time", "escape", "camera", "light", "clear", "view", "model", "draw",
     "present", "poll" >>

IsPrefix(a, b) == Len(a) <= Len(b) /\ a = SubSeq(b, 1, Len(a))

\* The camera has been constructed.
CameraExists == Len(stages) = Len(StartupStages)

\* The loop is inside an iteration, after the camera controls: keys and
\* deltaTime are those the controls read.
AfterControls == pc \in {"light", "render", "swap"}

MoveKeys ==
  {GLFW_KEY_W, GLFW_KEY_S, GLFW_KEY_A, GLFW_KEY_D, GLFW_KEY_Q, GLFW_KEY_E}

Pressed(k) == IF k \in keys THEN 1 ELSE 0

\* C1: every L key press flips lightOn exactly once: when L is released
\* after having been observed pressed in one or more consecutive iterations,
\* lightOn is the negation of the value it had before the press.
C1_LTogglesOncePerPress ==
  (pc = "loop" /\ hist.lPressed /\ GLFW_KEY_L \notin keys)
    => lightOn = ~hist.lightAtPress

\* The position of main on its way out: after the Escape test, through the
\* rest of the iteration, the loop test and the cleanup, to the return.
QuitRank(p) ==
  CASE p = "camera" -> 1
    [] p = "light" -> 2
    [] p = "render" -> 3
    [] p = "swap" -> 4
    [] p = "loop" -> 5
    [] p = "cleanup" -> 6
    [] p = "done" -> 7
    [] OTHER -> 0

\* C2: Escape quits.  Once an iteration has observed Escape pressed, the
\* should-close flag is set, no further iteration is started, that
\* iteration draws and presents, the cleanup deletes the VAO, the VBO, the
\* EBO and the shader program, calls glfwTerminate and main returns 0.  The
\* program terminates: until main has returned it always has a next step,
\* and every step after the observation moves it one position further on
\* the way camera controls, light, render, swap, loop test, cleanup, return.
C2_EscapeQuits ==
  /\ [](hist.escFrame > 0 =>
          /\ glfw.shouldClose
          /\ frame = hist.escFrame
          /\ QuitRank(pc) >= 1
          /\ pc \in {"loop", "cleanup", "done"} =>
               /\ steps = FrameSteps
               /\ hist.presented = hist.escFrame
               /\ hist.draws[1].frame = hist.escFrame
          /\ pc = "done" =>
               /\ gl.deleted = {"VAO", "VBO", "EBO", "program"}
               /\ glfw.terminated
               /\ exitCode = << 0 >>
          /\ pc # "done" => ENABLED Next)
  /\ [][hist.escFrame > 0 => QuitRank(pc') = QuitRank(pc) + 1]_vars

C2_Witness ==
  /\ pc = "done"
  /\ hist.escFrame = 2
  /\ GLFW_KEY_ESCAPE \in keys
  /\ exitCode = << 0 >>

ContextMessages ==
  {"Failed to initialize GLFW", "Failed to create GLFW window",
   "Failed to initialize GLAD"}

\* C3: a context-creation failure is fatal.  When glfwInit, glfwCreateWindow
\* or gladLoadGLLoader fails, initGLFWandGLAD writes its message to standard
\* error and the process exits with EXIT_FAILURE: no geometry is uploaded,
\* no shader compiled, no texture loaded and no loop iteration run.
C3_ContextFailureFatal ==
  /\ (\E i \in 1..Len(stderr) : stderr[i] \in ContextMessages) =>
       /\ pc = "exited"
       /\ exitCode = << EXIT_FAILURE >>
       /\ Len(stderr) = 1
       /\ stages = << >>
       /\ gl.bufferData = [VBO |-> 0, EBO |-> 0]
       /\ gl.program = << >>
       /\ gl.texture = "none"
       /\ frame = 0
       /\ hist.draws = << >>
  /\ pc = "exited" => Len(stderr) = 1 /\ stderr[1] \in ContextMessages

C3_Witness ==
  /\ pc = "exited"
  /\ stderr = << "Failed to create GLFW window" >>
  /\ glfw.terminated
  /\ exitCode = << EXIT_FAILURE >>

\* C4: the vertex and index buffers are uploaded exactly once at start-up
\* and never written again: in every state after the upload each buffer has
\* seen exactly one glBufferData call and holds the array uploaded to it,
\* and the buffers are deleted only by the cleanup.
C4_BuffersUploadedOnce ==
  /\ IF Len(stages) >= 2
       THEN /\ gl.bufferData = [VBO |-> 1, EBO |-> 1]
            /\ Contents(gl.vbo) = vertices
            /\ Contents(gl.ebo) = indices
       ELSE /\ gl.bufferData = [VBO |-> 0, EBO |-> 0]
            /\ gl.vbo = NoData
            /\ gl.ebo = NoData
  /\ gl.deleted # {} => pc = "done"

C4_Witness ==
  /\ pc = "swap"
  /\ frame = 3
  /\ keys = {GLFW_KEY_W, GLFW_KEY_L}
  /\ gl.bufferData = [VBO |-> 1, EBO |-> 1]

\* C5: vertex and index counts match.  vertices holds 20 vertices of 8
\* floats, every index is in 0..19, there are 78 indices, a multiple of 3,
\* and every draw call is handed the number of indices the EBO holds, so it
\* reads no vertex outside the uploaded vertex buffer.
C5_CountsMatch ==
  /\ Len(vertices) = 20 * FloatsPerVertex
  /\ \A i \in 1..Len(indices) : indices[i] \in 0..19
  /\ Len(indices) = 78
  /\ Len(indices) % 3 = 0
  /\ hist.draws # << >> =>
       /\ hist.draws[1].count = Len(Contents(gl.ebo))
       /\ hist.draws[1].count = gl.ebo.size
       /\ ~hist.draws[1].overrun
       /\ hist.draws[1].vertexCount = 20
       /\ \A v \in hist.draws[1].fetched : v \in 0..(hist.draws[1].vertexCount - 1)

C5_Witness ==
  /\ pc = "swap"
  /\ hist.draws # << >>
  /\ hist.draws[1].count = 78
  /\ 19 \in hist.draws[1].fetched

C7_LinearSequence ==
  /\ IsPrefix(stages, StartupStages)
  /\ frame > 0 => stages = StartupStages
  /\ IsPrefix(steps, FrameSteps)
  /\ hist.presented = (IF pc = "loop" \/ pc = "cleanup" \/ pc = "done" THEN frame ELSE
                       IF frame = 0 THEN 0 ELSE frame - 1)
  /\ (Len(steps) >= 9) =>
       /\ Cardinality({i \in 1..Len(steps) : steps[i] = "draw"}) = 1
       /\ hist.draws[1].frame = frame

C7_Witness ==
  /\ pc = "loop"
  /\ frame = 2
  /\ steps = FrameSteps
  /\ hist.presented = 2

ShaderMessages ==
  {"ERROR::SHADER::VERTEX::COMPILATION_FAILED",
   "ERROR::SHADER::FRAGMENT::COMPILATION_FAILED",
   "ERROR::SHADER::PROGRAM::LINKING_FAILED"}

\* The position of main from its entry to the first present.
StartRank(p) ==
  CASE p = "start" -> 0
    [] p = "upload" -> 1
    [] p = "shader" -> 2
    [] p = "texture" -> 3
    [] p = "setup" -> 4
    [] p = "loop" -> 5
    [] p = "input" -> 6
    [] p = "camera" -> 7
    [] p = "light" -> 8
    [] p = "render" -> 9
    [] p = "swap" -> 10
    [] OTHER -> 11

\* A message of createShaderProgram or of the texture load is on stderr.
SoftFailureLogged ==
  \E i \in 1..Len(stderr) :
    stderr[i] \in ShaderMessages \cup {"Failed to load texture"}

\* C9: shader and texture failures are logged, not fatal.  Each failed
\* status check and a failed stbi_load leaves its message on standard
\* error, the process does not exit, createShaderProgram returns a program
\* handle, and main goes on to the loop and draws: from the shader stage to
\* the first draw call every step moves main one position further, main
\* always has a next step, and the first swap finds a draw call issued.
C9_SoftFailuresNotFatal ==
  /\ [](Len(stages) >= 3 =>
          /\ gl.program # << >>
          /\ ~gl.program[1].vs <=>
               (\E i \in 1..Len(stderr) : stderr[i] = "ERROR::SHADER::VERTEX::COMPILATION_FAILED")
          /\ ~gl.program[1].fs <=>
               (\E i \in 1..Len(stderr) : stderr[i] = "ERROR::SHADER::FRAGMENT::COMPILATION_FAILED")
          /\ ~gl.program[1].linked <=>
               (\E i \in 1..Len(stderr) : stderr[i] = "ERROR::SHADER::PROGRAM::LINKING_FAILED"))
  /\ [](gl.texture = "empty" <=>
          (\E i \in 1..Len(stderr) : stderr[i] = "Failed to load texture"))
  /\ [](SoftFailureLogged =>
          /\ pc # "exited"
          /\ exitCode # << EXIT_FAILURE >>
          /\ hist.draws = << >> => StartRank(pc) \in 3..9 /\ ENABLED Next
          /\ pc = "swap" => hist.draws # << >>)
  /\ [][(pc # "start" /\ hist.draws = << >>) => StartRank(pc') = StartRank(pc) + 1]_vars

C9_Witness ==
  /\ pc = "swap"
  /\ Len(stderr) = 4
  /\ gl.texture = "empty"
  /\ hist.draws # << >>

\* C10: the lightOn uniform agrees with the variable lightOn at every draw:
\* the value the draw call finds in the uniform is the value of lightOn,
\* whatever L presses and other inputs came before, and it is true in the
\* first frame when L is not pressed.
C10_LightUniformAgrees ==
  /\ pc = "swap" => hist.draws # << >> /\ hist.draws[1].lightOn = << lightOn >>
  /\ (pc = "swap" /\ frame = 1 /\ GLFW_KEY_L \notin keys) =>
       hist.draws[1].lightOn = << TRUE >>

C10_Witness ==
  /\ pc = "swap"
  /\ frame = 3
  /\ GLFW_KEY_L \in keys
  /\ keys # {GLFW_KEY_L}
  /\ hist.draws[1].lightOn = << TRUE >>

====
